---- MODULE Spec2Model ----
(***************************************************************************)
(* A model of script.py: module initialisation, the provisioning pipeline  *)
(* run by __main__ (resource group, network stack, VM, SQL database,       *)
(* storage account) and the stand-alone VM lifecycle operations.           *)
(*                                                                         *)
(* The cloud provider is the environment: every SDK call is one step       *)
(* whose outcome (a result or a raised exception) is chosen by the         *)
(* provider.  `calls` records the SDK calls in the order they are issued,  *)
(* `log` the records handed to the logging module.                         *)
(***************************************************************************)
EXTENDS Naturals, Sequences, FiniteSets

\* ------------------------------------------------------------------------
\* Program constants (script.py lines 39-49)
\* ------------------------------------------------------------------------
RESOURCE_GROUP_NAME == "MyResourceGroup"
LOCATION == "centralus"
VM_NAME == "MyVM"
STORAGE_ACCOUNT_NAME == "mystorageacct"
SQL_SERVER_NAME == "myserver"
SQL_DB_NAME == "mydatabase"
VNET_NAME == "MyVNet"
SUBNET_NAME == "MySubnet"
IP_NAME == "MyPublicIP"
NIC_NAME == "MyVMNIC"

\* the literal of `range(10)` in the three verification loops
PollBudget == 10

\* the fallback literal of line 28
PlaceholderSubscription == "your_subscription_id"

\* the preferred size passed at line 174
PipelinePreferredSize == "Standard_B1s"

\* Python's None (os.getenv of an unset variable, the empty selection of
\* get_available_vm_size)
None == "None"

\* `time` is used at lines 114, 228 and 269; the import block (lines 1-20)
\* does not import it, so the name is unbound when the sleep is evaluated.
TimeImported == FALSE

\* ------------------------------------------------------------------------
\* Bounds of the model
\* ------------------------------------------------------------------------
\* longest availability list the provider returns
MaxSizes == 2

\* VM size names the provider may list
SizeNames == {"Standard_B1s", "Standard_D2a_v4", "Standard_A1_v2"}

\* samples of the 6-character suffix drawn by random.choices
Suffixes == {"a1b2c3", "zz9zz9"}

\* values of AZURE_SUBSCRIPTION_ID in the environment: unset, empty, set
EnvValues == {None, "", "sub-0001"}

SizeLists == UNION {[1..n -> SizeNames] : n \in 0..MaxSizes}

\* ------------------------------------------------------------------------
\* Exceptions
\* ------------------------------------------------------------------------
\* azure.core.exceptions: ResourceNotFoundError and ResourceExistsError are
\* subclasses of HttpResponseError; ServiceRequestError (transport) is not.
IsHttpResponseError(exc) ==
    exc \in {"HttpResponseError", "ResourceNotFoundError", "ResourceExistsError"}

CreateOutcomes == {"ok", "HttpResponseError", "ServiceRequestError"}
GetOutcomes == {"ok", "ResourceNotFoundError", "HttpResponseError", "ServiceRequestError"}

VARIABLES
    env_sub,                      \* os.environ's AZURE_SUBSCRIPTION_ID
    subscription_id,              \* module global, line 28
    clients,                      \* the five management clients exist (33-37)
    pc,                           \* the statement about to run / that raised
    status,                       \* "running", "succeeded", "failed"
    err,                          \* the exception that left the top frame
    rgPresent,                    \* provider: the resource group exists
    attempts,                     \* completed iterations of the current for loop
    vm_size,                      \* local of create_virtual_machine
    unique_sql_server_name,       \* local of setup_sql_database
    unique_storage_account_name,  \* local of configure_storage_account
    calls,                        \* SDK calls issued, in order
    log,                          \* logging records, in order
    u_fn,                         \* function invoked stand-alone ("none" in a run)
    u_pref,                       \* its preferred_size argument
    u_names                       \* the availability list the provider holds

vars == <<env_sub, subscription_id, clients, pc, status, err, rgPresent,
          attempts, vm_size, unique_sql_server_name,
          unique_storage_account_name, calls, log, u_fn, u_pref, u_names>>

Call(op, name, res) == [op |-> op, name |-> name, res |-> res]
L(level, msg) == [level |-> level, msg |-> msg]

\* ------------------------------------------------------------------------
\* Pure functions
\* ------------------------------------------------------------------------
\* line 28: os.getenv('AZURE_SUBSCRIPTION_ID') or "your_subscription_id"
Truthy(v) == v # None /\ v # ""

ResolveSubscription(env) == IF Truthy(env) THEN env ELSE PlaceholderSubscription

\* lines 237-239
generate_unique_name(base_name, suffix) == base_name \o suffix

Contains(names, x) == \E i \in 1..Len(names) : names[i] = x

\* lines 153-163, on the names the provider listed
get_available_vm_size_last(names, preferred_size) ==
    IF Contains(names, preferred_size) THEN preferred_size
    ELSE IF Len(names) > 0 THEN names[Len(names)] ELSE None

get_available_vm_size(names, preferred_size) ==
    IF Contains(names, preferred_size) THEN preferred_size
    ELSE IF Len(names) > 0 THEN names[1] ELSE None

\* lines 57-59: the create branch is taken when the group is reported absent
ShouldCreateGroupAlways(exists) == TRUE

ShouldCreateGroup(exists) == ~exists

\* ------------------------------------------------------------------------
\* Control flow
\* ------------------------------------------------------------------------
RgCheckPcs == {"main_rg_check", "vm_rg_check", "u_rg_check"}
RgCreatePcs == {"main_rg_create", "vm_rg_create", "u_rg_create"}
PollPcs == {"ip_poll", "vm_poll", "sql_poll"}
LifecyclePcs == {"u_start_vm", "u_stop_vm", "u_delete_vm"}
LifecycleFns == {"start_vm", "stop_vm", "delete_vm"}

\* the functions whose try blocks enclose statement p, innermost first
Stack(p) ==
    CASE p \in {"main_rg_check", "main_rg_create", "u_rg_check", "u_rg_create"}
            -> <<"create_resource_group">>
      [] p \in {"vm_rg_check", "vm_rg_create"}
            -> <<"create_resource_group", "create_virtual_machine">>
      [] p \in {"vnet_create", "subnet_create"}
            -> <<"create_virtual_network", "create_virtual_machine">>
      [] p \in {"ip_create", "ip_poll"}
            -> <<"create_public_ip", "create_virtual_machine">>
      [] p \in {"nic_subnet_get", "nic_ip_get", "nic_create"}
            -> <<"create_network_interface", "create_virtual_machine">>
      [] p \in {"vm_sizes", "vm_create", "vm_poll"}
            -> <<"create_virtual_machine">>
      [] p \in {"sql_create", "sql_poll", "db_create"}
            -> <<"setup_sql_database">>
      [] p = "storage_create" -> <<"configure_storage_account">>
      [] p = "u_start_vm" -> <<"start_vm">>
      [] p = "u_stop_vm" -> <<"stop_vm">>
      [] p = "u_delete_vm" -> <<"delete_vm">>
      [] OTHER -> <<>>

\* the statement that runs when function fn, entered on the way to
\* statement p, returns normally
ReturnPc(fn, p) ==
    CASE p \in {"u_rg_check", "u_rg_create", "u_vm_sizes"} \cup LifecyclePcs
            -> "u_returned"
      [] fn = "create_resource_group" /\ p \in {"main_rg_check", "main_rg_create"}
            -> "vm_rg_check"
      [] fn = "create_resource_group" -> "vnet_create"
      [] fn = "create_virtual_network" -> "ip_create"
      [] fn = "create_public_ip" -> "nic_subnet_get"
      [] fn = "create_network_interface" -> "vm_sizes"
      [] fn = "create_virtual_machine" -> "sql_create"
      [] fn = "setup_sql_database" -> "storage_create"
      [] OTHER -> "done"

\* the statement that follows p when p completes without raising
StmtAfter(p) ==
    CASE p = "main_rg_check" -> "main_rg_create"
      [] p = "vm_rg_check" -> "vm_rg_create"
      [] p = "u_rg_check" -> "u_rg_create"
      [] p = "vnet_create" -> "subnet_create"
      [] p = "ip_create" -> "ip_poll"
      [] p = "nic_subnet_get" -> "nic_ip_get"
      [] p = "nic_ip_get" -> "nic_create"
      [] p = "vm_sizes" -> "vm_create"
      [] p = "vm_create" -> "vm_poll"
      [] p = "sql_create" -> "sql_poll"
      [] p = "sql_poll" -> "db_create"
      [] OTHER -> ReturnPc(IF Stack(p) = <<>> THEN "none" ELSE Stack(p)[1], p)

PipelineNextNoSubnetRead(p) ==
    IF p = "ip_poll" THEN "nic_ip_get" ELSE StmtAfter(p)

PipelineNextNoVmPoll(p) ==
    IF p = "vm_create" THEN "sql_create" ELSE StmtAfter(p)

PipelineNext(p) == StmtAfter(p)

\* the except clause of fn that matches exc: "swallow" when it only logs,
\* "reraise" when it ends in `raise`
HandlerSwallowAll(fn, exc) == "swallow"

HandlerReraiseAll(fn, exc) == "reraise"

Handler(fn, exc) ==
    IF fn \in LifecycleFns /\ exc = "ResourceNotFoundError"
    THEN "swallow" ELSE "reraise"

\* the message that except clause logs at level error
ErrorLog(fn, exc) ==
    CASE fn = "create_resource_group" -> "Error creating or using resource group"
      [] fn = "create_virtual_network" ->
            IF IsHttpResponseError(exc) THEN "Error creating virtual network or subnet"
            ELSE "Unexpected error occurred"
      [] fn = "create_public_ip" ->
            IF IsHttpResponseError(exc) THEN "Error creating public IP address"
            ELSE "Unexpected error occurred"
      [] fn = "create_network_interface" -> "Error creating network interface"
      [] fn = "create_virtual_machine" -> "Error deploying VM"
      [] fn = "setup_sql_database" ->
            IF IsHttpResponseError(exc) THEN "Failed to set up SQL database"
            ELSE "Unexpected error occurred"
      [] fn = "configure_storage_account" ->
            IF exc = "ResourceExistsError" THEN "Storage account name already taken"
            ELSE "Error configuring storage account"
      [] fn = "start_vm" ->
            IF exc = "ResourceNotFoundError" THEN "VM not found" ELSE "Error starting VM"
      [] fn = "stop_vm" ->
            IF exc = "ResourceNotFoundError" THEN "VM not found" ELSE "Error stopping VM"
      [] fn = "delete_vm" ->
            IF exc = "ResourceNotFoundError" THEN "VM not found" ELSE "Error deleting VM"
      [] OTHER -> "unhandled"

\* index in stk of the first handler that swallows exc, 0 when none does
CatchAt(stk, exc) ==
    IF \E i \in 1..Len(stk) : Handler(stk[i], exc) = "swallow"
    THEN CHOOSE i \in 1..Len(stk) :
            /\ Handler(stk[i], exc) = "swallow"
            /\ \A j \in 1..(i - 1) : Handler(stk[j], exc) # "swallow"
    ELSE 0

FinalPcs == {"done", "u_returned"}

\* control moves to statement p
Goto(p) ==
    /\ pc' = p
    /\ status' = IF p \in FinalPcs THEN "succeeded" ELSE "running"
    /\ err' = err

\* exc is raised at the current statement, after `pre` was logged: each
\* enclosing except clause logs, and re-raises or swallows; an exception no
\* clause swallows leaves the top frame and ends the program
Raise(exc, pre) ==
    LET stk == Stack(pc)
        k == CatchAt(stk, exc)
        n == IF k = 0 THEN Len(stk) ELSE k
        entries == [j \in 1..n |-> L("error", ErrorLog(stk[j], exc))]
    IN  /\ log' = log \o pre \o entries
        /\ IF k = 0
           THEN /\ status' = "failed"
                /\ err' = exc
                /\ pc' = pc
           ELSE Goto(ReturnPc(stk[k], pc))

\* the name argument of the SDK call at statement p
CallNameTable(p, sql_name, storage_name) ==
    CASE p \in RgCheckPcs \cup RgCreatePcs -> RESOURCE_GROUP_NAME
      [] p = "vnet_create" -> VNET_NAME
      [] p \in {"subnet_create", "nic_subnet_get"} -> SUBNET_NAME
      [] p \in {"ip_create", "ip_poll", "nic_ip_get"} -> IP_NAME
      [] p = "nic_create" -> NIC_NAME
      [] p \in {"vm_sizes", "u_vm_sizes"} -> LOCATION
      [] p \in {"vm_create", "vm_poll"} \cup LifecyclePcs -> VM_NAME
      [] p \in {"sql_create", "sql_poll", "db_create"} -> sql_name
      [] p = "storage_create" -> storage_name
      [] OTHER -> None

CallNameStaleSql(p, sql_name, storage_name) ==
    IF p = "db_create" THEN SQL_SERVER_NAME
    ELSE CallNameTable(p, sql_name, storage_name)

CallName(p, sql_name, storage_name) == CallNameTable(p, sql_name, storage_name)

NameAt(p) == CallName(p, unique_sql_server_name, unique_storage_account_name)

\* ------------------------------------------------------------------------
\* Initial states
\* ------------------------------------------------------------------------
\* the interpreter is about to execute the module (line 27); the
\* environment and the provider are in any state
Init ==
    /\ env_sub \in EnvValues
    /\ subscription_id = None
    /\ clients = FALSE
    /\ pc = "load"
    /\ status = "running"
    /\ err = None
    /\ rgPresent \in BOOLEAN
    /\ attempts = 0
    /\ vm_size = None
    /\ unique_sql_server_name = None
    /\ unique_storage_account_name = None
    /\ calls = <<>>
    /\ log = <<>>
    /\ u_fn = "none"
    /\ u_pref = None
    /\ u_names = <<>>

UnitFns == {"create_resource_group", "get_available_vm_size"} \cup LifecycleFns

EntryPc(fn) ==
    CASE fn = "create_resource_group" -> "u_rg_check"
      [] fn = "get_available_vm_size" -> "u_vm_sizes"
      [] fn = "start_vm" -> "u_start_vm"
      [] fn = "stop_vm" -> "u_stop_vm"
      [] OTHER -> "u_delete_vm"

\* the module was imported with the subscription set, and one of its
\* functions is about to be called on its own
UnitInit ==
    /\ env_sub = "sub-0001"
    /\ subscription_id = ResolveSubscription(env_sub)
    /\ clients = TRUE
    /\ u_fn \in UnitFns
    /\ pc = EntryPc(u_fn)
    /\ status = "running"
    /\ err = None
    /\ rgPresent \in (IF u_fn = "create_resource_group" THEN BOOLEAN ELSE {FALSE})
    /\ attempts = 0
    /\ vm_size = None
    /\ unique_sql_server_name = None
    /\ unique_storage_account_name = None
    /\ calls = <<>>
    /\ log = <<>>
    /\ u_pref \in (IF u_fn = "get_available_vm_size" THEN SizeNames ELSE {None})
    /\ u_names \in (IF u_fn = "get_available_vm_size" THEN SizeLists ELSE {<<>>})

\* ------------------------------------------------------------------------
\* Module initialisation (lines 26-37)
\* ------------------------------------------------------------------------
ModuleInit ==
    /\ status = "running" /\ pc = "load"
    /\ subscription_id' = ResolveSubscription(env_sub)
    /\ IF ~Truthy(subscription_id')
       THEN /\ status' = "failed"
            /\ err' = "ValueError"
            /\ pc' = pc
            /\ clients' = FALSE
       ELSE /\ clients' = TRUE
            /\ Goto("main_rg_check")
    /\ UNCHANGED <<env_sub, rgPresent, attempts, vm_size,
                   unique_sql_server_name, unique_storage_account_name,
                   calls, log, u_fn, u_pref, u_names>>

\* ------------------------------------------------------------------------
\* create_resource_group (lines 51-68)
\* ------------------------------------------------------------------------
\* lines 54-58: the existence query and the branch on its answer
CreateResourceGroup_Check ==
    /\ status = "running" /\ pc \in RgCheckPcs
    /\ \E r \in {"answer", "HttpResponseError", "ServiceRequestError"} :
         LET pre == <<L("info", "Checking if resource group exists")>>
         IN IF r = "answer"
            THEN /\ calls' = Append(calls, Call("group-check", NameAt(pc),
                                   IF rgPresent THEN "present" ELSE "absent"))
                 /\ IF ShouldCreateGroup(rgPresent)
                    THEN /\ log' = log \o pre
                         /\ Goto(PipelineNext(pc))
                    ELSE /\ log' = log \o pre \o
                                <<L("info", "Resource group already exists")>>
                         /\ Goto(ReturnPc("create_resource_group", pc))
            ELSE /\ calls' = Append(calls, Call("group-check", NameAt(pc), r))
                 /\ Raise(r, pre)
    /\ UNCHANGED <<env_sub, subscription_id, clients, rgPresent, attempts, vm_size,
                   unique_sql_server_name, unique_storage_account_name,
                   u_fn, u_pref, u_names>>

\* lines 60-65: the create call of the absent branch
CreateResourceGroup_Create ==
    /\ status = "running" /\ pc \in RgCreatePcs
    /\ \E r \in CreateOutcomes :
         LET pre == <<L("info", "Creating new resource group")>>
         IN /\ calls' = Append(calls, Call("group-create", NameAt(pc), r))
            /\ IF r = "ok"
               THEN /\ rgPresent' = TRUE
                    /\ log' = log \o pre \o <<L("info", "Resource group created")>>
                    /\ Goto(PipelineNext(pc))
               ELSE /\ rgPresent' = rgPresent
                    /\ Raise(r, pre)
    /\ UNCHANGED <<env_sub, subscription_id, clients, attempts, vm_size,
                   unique_sql_server_name, unique_storage_account_name,
                   u_fn, u_pref, u_names>>

\* ------------------------------------------------------------------------
\* Shapes shared by the remaining statements
\* ------------------------------------------------------------------------
\* a begin_create_or_update(...).result() at statement p: `pre` is logged
\* before the call, `post` after its completion
CreateStep(p, op, name, pre, post, outcomes) ==
    /\ status = "running" /\ pc = p
    /\ \E r \in outcomes :
         /\ calls' = Append(calls, Call(op, name, r))
         /\ IF r = "ok"
            THEN /\ log' = log \o pre \o post
                 /\ Goto(PipelineNext(p))
            ELSE Raise(r, pre)

\* a plain get at statement p (lines 128-132)
GetStep(p, op, pre) ==
    /\ status = "running" /\ pc = p
    /\ \E r \in GetOutcomes :
         /\ calls' = Append(calls, Call(op, NameAt(p), r))
         /\ IF r = "ok"
            THEN /\ log' = log \o pre
                 /\ Goto(PipelineNext(p))
            ELSE Raise(r, pre)

\* one iteration of `for _ in range(10): try: get ... break
\* except ResourceNotFoundError: warning; time.sleep(5)
\* else: raise Exception("... could not be verified after creation.")`
VerifyStep(p, op) ==
    /\ status = "running" /\ pc = p /\ attempts < PollBudget
    /\ \E r \in GetOutcomes :
         /\ calls' = Append(calls, Call(op, NameAt(p), r))
         /\ CASE r = "ok" ->
                   /\ log' = log \o <<L("info", "verified")>>
                   /\ attempts' = 0
                   /\ Goto(PipelineNext(p))
              [] r = "ResourceNotFoundError" ->
                   LET warn == <<L("warning", "not found yet. Retrying")>>
                   IN IF ~TimeImported
                      THEN /\ attempts' = attempts
                           /\ Raise("NameError", warn)
                      ELSE IF attempts + 1 < PollBudget
                      THEN /\ attempts' = attempts + 1
                           /\ log' = log \o warn
                           /\ UNCHANGED <<pc, status, err>>
                      ELSE /\ attempts' = attempts + 1
                           /\ Raise("NotVerified", warn)
              [] OTHER ->
                   /\ attempts' = attempts
                   /\ Raise(r, <<>>)

\* a begin_start / begin_power_off / begin_delete of the VM (lines 313-346)
LifecycleStep(p, op, pre, post) ==
    /\ status = "running" /\ pc = p
    /\ \E r \in GetOutcomes :
         /\ calls' = Append(calls, Call(op, NameAt(p), r))
         /\ IF r = "ok"
            THEN /\ log' = log \o pre \o post
                 /\ Goto(PipelineNext(p))
            ELSE Raise(r, pre)

fixed == <<env_sub, subscription_id, clients, u_fn, u_pref, u_names>>

\* ------------------------------------------------------------------------
\* create_virtual_network (lines 70-92)
\* ------------------------------------------------------------------------
CreateVirtualNetwork_VNet ==
    /\ CreateStep("vnet_create", "vnet-create", NameAt("vnet_create"),
                  <<L("info", "Creating virtual network and subnet")>>, <<>>,
                  CreateOutcomes)
    /\ UNCHANGED <<fixed, rgPresent, attempts, vm_size,
                   unique_sql_server_name, unique_storage_account_name>>

CreateVirtualNetwork_Subnet ==
    /\ CreateStep("subnet_create", "subnet-create", NameAt("subnet_create"),
                  <<>>, <<L("info", "Virtual network and subnet created")>>,
                  CreateOutcomes)
    /\ UNCHANGED <<fixed, rgPresent, attempts, vm_size,
                   unique_sql_server_name, unique_storage_account_name>>

\* ------------------------------------------------------------------------
\* create_public_ip (lines 94-123)
\* ------------------------------------------------------------------------
CreatePublicIp_Create ==
    /\ CreateStep("ip_create", "publicip-create", NameAt("ip_create"),
                  <<L("info", "Creating public IP address")>>,
                  <<L("info", "Public IP address creation initiated")>>,
                  CreateOutcomes)
    /\ attempts' = 0
    /\ UNCHANGED <<fixed, rgPresent, vm_size,
                   unique_sql_server_name, unique_storage_account_name>>

CreatePublicIp_Verify ==
    /\ VerifyStep("ip_poll", "publicip-poll")
    /\ UNCHANGED <<fixed, rgPresent, vm_size,
                   unique_sql_server_name, unique_storage_account_name>>

\* ------------------------------------------------------------------------
\* create_network_interface (lines 125-151)
\* ------------------------------------------------------------------------
CreateNetworkInterface_GetSubnet ==
    /\ GetStep("nic_subnet_get", "subnet-get",
               <<L("info", "Creating network interface")>>)
    /\ UNCHANGED <<fixed, rgPresent, attempts, vm_size,
                   unique_sql_server_name, unique_storage_account_name>>

CreateNetworkInterface_GetIp ==
    /\ GetStep("nic_ip_get", "publicip-get", <<>>)
    /\ UNCHANGED <<fixed, rgPresent, attempts, vm_size,
                   unique_sql_server_name, unique_storage_account_name>>

CreateNetworkInterface_Create ==
    /\ CreateStep("nic_create", "nic-create", NameAt("nic_create"),
                  <<>>, <<L("info", "Network interface created")>>,
                  CreateOutcomes)
    /\ UNCHANGED <<fixed, rgPresent, attempts, vm_size,
                   unique_sql_server_name, unique_storage_account_name>>

\* ------------------------------------------------------------------------
\* get_available_vm_size and its call (lines 153-163, 172-176)
\* ------------------------------------------------------------------------
\* In a run the preferred size is the literal of line 174 and the provider
\* lists any availability; called on its own the statement pair
\* `vm_size = get_available_vm_size(LOCATION, p); if not vm_size: raise`
\* is applied to the drawn preferred size and list.
GetAvailableVmSize ==
    /\ status = "running" /\ pc \in {"vm_sizes", "u_vm_sizes"}
    /\ LET preferred == IF pc = "vm_sizes" THEN PipelinePreferredSize ELSE u_pref
           pre == (IF pc = "vm_sizes"
                   THEN <<L("info", "Deploying virtual machine")>> ELSE <<>>)
                  \o <<L("info", "Checking availability of VM size")>>
       IN \E r \in CreateOutcomes :
            /\ calls' = Append(calls, Call("vmsize-list", NameAt(pc), r))
            /\ IF r = "ok"
               THEN \E names \in (IF pc = "vm_sizes" THEN SizeLists ELSE {u_names}) :
                      LET size == get_available_vm_size(names, preferred)
                          sel == IF Contains(names, preferred)
                                 THEN <<L("info", "Preferred VM size is available")>>
                                 ELSE <<L("warning", "Preferred VM size is not available")>>
                      IN /\ vm_size' = size
                         /\ IF ~Truthy(size)
                            THEN Raise("NoVmSizes", pre \o sel)
                            ELSE /\ log' = log \o pre \o sel
                                 /\ Goto(PipelineNext(pc))
               ELSE /\ vm_size' = vm_size
                    /\ Raise(r, pre)
    /\ UNCHANGED <<fixed, rgPresent, attempts,
                   unique_sql_server_name, unique_storage_account_name>>

\* ------------------------------------------------------------------------
\* create_virtual_machine (lines 165-234)
\* ------------------------------------------------------------------------
\* lines 208-218: the inner try logs and re-raises before the outer clause
CreateVirtualMachine_Create ==
    /\ status = "running" /\ pc = "vm_create"
    /\ \E r \in CreateOutcomes \cup {"ResourceExistsError"} :
         /\ calls' = Append(calls, Call("vm-create", NameAt(pc), r))
         /\ IF r = "ok"
            THEN /\ log' = log \o <<L("info", "VM deployed successfully")>>
                 /\ Goto(PipelineNext(pc))
            ELSE Raise(r, IF r = "ResourceExistsError"
                          THEN <<L("error", "Resource exists error while creating VM")>>
                          ELSE IF IsHttpResponseError(r)
                          THEN <<L("error", "Failed to deploy VM, retrying due to error")>>
                          ELSE <<>>)
    /\ attempts' = 0
    /\ UNCHANGED <<fixed, rgPresent, vm_size,
                   unique_sql_server_name, unique_storage_account_name>>

CreateVirtualMachine_Verify ==
    /\ VerifyStep("vm_poll", "vm-poll")
    /\ UNCHANGED <<fixed, rgPresent, vm_size,
                   unique_sql_server_name, unique_storage_account_name>>

\* ------------------------------------------------------------------------
\* setup_sql_database (lines 241-284)
\* ------------------------------------------------------------------------
SetupSqlDatabase_CreateServer ==
    /\ \E sfx \in Suffixes :
         LET name == generate_unique_name(SQL_SERVER_NAME, sfx)
         IN /\ unique_sql_server_name' = name
            /\ CreateStep("sql_create", "sqlserver-create",
                          CallName("sql_create", name, unique_storage_account_name),
                          <<L("info", "Setting up SQL database"),
                            L("info", "Generated unique SQL Server name")>>,
                          <<L("info", "SQL Server created")>>,
                          CreateOutcomes)
    /\ attempts' = 0
    /\ UNCHANGED <<fixed, rgPresent, vm_size, unique_storage_account_name>>

SetupSqlDatabase_Verify ==
    /\ VerifyStep("sql_poll", "sqlserver-poll")
    /\ UNCHANGED <<fixed, rgPresent, vm_size,
                   unique_sql_server_name, unique_storage_account_name>>

SetupSqlDatabase_CreateDatabase ==
    /\ CreateStep("db_create", "database-create", NameAt("db_create"),
                  <<>>, <<L("info", "SQL Database setup successfully")>>,
                  CreateOutcomes)
    /\ UNCHANGED <<fixed, rgPresent, attempts, vm_size,
                   unique_sql_server_name, unique_storage_account_name>>

\* ------------------------------------------------------------------------
\* configure_storage_account (lines 287-310)
\* ------------------------------------------------------------------------
ConfigureStorageAccount ==
    /\ \E sfx \in Suffixes :
         LET name == generate_unique_name(STORAGE_ACCOUNT_NAME, sfx)
         IN /\ unique_storage_account_name' = name
            /\ CreateStep("storage_create", "storage-create",
                          CallName("storage_create", unique_sql_server_name, name),
                          <<L("info", "Configuring storage account"),
                            L("info", "Generated unique storage account name")>>,
                          <<L("info", "Storage account configured")>>,
                          CreateOutcomes \cup {"ResourceExistsError"})
    /\ UNCHANGED <<fixed, rgPresent, attempts, vm_size,
                   unique_sql_server_name>>

\* ------------------------------------------------------------------------
\* start_vm, stop_vm, delete_vm (lines 313-346)
\* ------------------------------------------------------------------------
StartVm ==
    /\ LifecycleStep("u_start_vm", "vm-start",
                     <<L("info", "Starting VM")>>, <<L("info", "VM started")>>)
    /\ UNCHANGED <<fixed, rgPresent, attempts, vm_size,
                   unique_sql_server_name, unique_storage_account_name>>

StopVm ==
    /\ LifecycleStep("u_stop_vm", "vm-power-off",
                     <<L("info", "Stopping VM")>>, <<L("info", "VM stopped")>>)
    /\ UNCHANGED <<fixed, rgPresent, attempts, vm_size,
                   unique_sql_server_name, unique_storage_account_name>>

DeleteVm ==
    /\ LifecycleStep("u_delete_vm", "vm-delete",
                     <<L("info", "Deleting VM")>>, <<L("info", "VM deleted")>>)
    /\ UNCHANGED <<fixed, rgPresent, attempts, vm_size,
                   unique_sql_server_name, unique_storage_account_name>>

\* ------------------------------------------------------------------------
\* Specifications
\* ------------------------------------------------------------------------
\* `python script.py`: module initialisation, then the __main__ block
\* (lines 348-352)
Next ==
    \/ ModuleInit
    \/ CreateResourceGroup_Check
    \/ CreateResourceGroup_Create
    \/ CreateVirtualNetwork_VNet
    \/ CreateVirtualNetwork_Subnet
    \/ CreatePublicIp_Create
    \/ CreatePublicIp_Verify
    \/ CreateNetworkInterface_GetSubnet
    \/ CreateNetworkInterface_GetIp
    \/ CreateNetworkInterface_Create
    \/ GetAvailableVmSize
    \/ CreateVirtualMachine_Create
    \/ CreateVirtualMachine_Verify
    \/ SetupSqlDatabase_CreateServer
    \/ SetupSqlDatabase_Verify
    \/ SetupSqlDatabase_CreateDatabase
    \/ ConfigureStorageAccount

Spec == Init /\ [][Next]_vars

\* one function of the imported module called on its own
UnitNext ==
    \/ CreateResourceGroup_Check
    \/ CreateResourceGroup_Create
    \/ GetAvailableVmSize
    \/ StartVm
    \/ StopVm
    \/ DeleteVm

UnitSpec == UnitInit /\ [][UnitNext]_vars

\* ------------------------------------------------------------------------
\* Vocabulary of the properties
\* ------------------------------------------------------------------------
Ops == [i \in 1..Len(calls) |-> calls[i].op]

\* a call that completed: a create, list or read that returned, or an
\* existence query that answered
Completed(c) == c.res \in {"ok", "present", "absent"}

\* a call that raised something other than the not-found answer of a
\* verification query
PollOps == {"publicip-poll", "vm-poll", "sqlserver-poll"}

Failing(c) ==
    /\ ~Completed(c)
    /\ ~(c.op \in PollOps /\ c.res = "ResourceNotFoundError")

\* before call i, a call of operation op completed
DoneBefore(op, i) ==
    \E j \in 1..(i - 1) : calls[j].op = op /\ calls[j].res = "ok"

PollOp(p) ==
    CASE p = "ip_poll" -> "publicip-poll"
      [] p = "vm_poll" -> "vm-poll"
      [] OTHER -> "sqlserver-poll"

\* the number of not-found answers that end the log, all to operation op
TrailingNotFound(op) ==
    LET nf(i) == calls[i].op = op /\ calls[i].res = "ResourceNotFoundError"
        n == Len(calls)
    IN CHOOSE k \in 0..n :
          /\ \A i \in (n - k + 1)..n : nf(i)
          /\ k < n => ~nf(n - k)

NumCalls(op) == Cardinality({i \in 1..Len(calls) : calls[i].op = op})

IsPrefix(s, t) == Len(s) <= Len(t) /\ \A i \in 1..Len(s) : s[i] = t[i]

C2_NotFoundIsRetried ==
    \A p \in PollPcs :
      (pc = p /\ TrailingNotFound(PollOp(p)) > 0
              /\ TrailingNotFound(PollOp(p)) < PollBudget)
         => status = "running"

\* C3: a verification step that only ever hears "not found" fails with the
\* could-not-be-verified error, after exactly PollBudget queries.
C3_TimeoutAfterBudget ==
    \A p \in PollPcs :
      (pc = p /\ status = "failed" /\ TrailingNotFound(PollOp(p)) > 0)
         => /\ err = "NotVerified"
            /\ TrailingNotFound(PollOp(p)) = PollBudget

\* ------------------------------------------------------------------------
\* C4
\* ------------------------------------------------------------------------
\* the run started with the group absent, every call so far completed and
\* the provider listed a VM size
AllSucceed ==
    /\ calls # <<>>
    /\ calls[1].res = "absent"
    /\ \A i \in 1..Len(calls) : Completed(calls[i])
    /\ err # "NoVmSizes"

NineCalls ==
    <<"group-create", "vnet-create", "subnet-create", "publicip-create",
      "publicip-poll", "nic-create", "vmsize-list", "vm-create", "vm-poll">>

RunCalls ==
    <<"group-check", "group-create", "group-check", "vnet-create",
      "subnet-create", "publicip-create", "publicip-poll", "subnet-get",
      "publicip-get", "nic-create", "vmsize-list", "vm-create", "vm-poll",
      "sqlserver-create", "sqlserver-poll", "database-create", "storage-create">>

\* C4 as stated: such a run, once over, has issued exactly the nine calls
\* group-create ... vm-poll, in this order, and succeeded.
C4_ExactlyNineCalls ==
    (AllSucceed /\ status # "running") => (Ops = NineCalls /\ status = "succeeded")

\* C4 as amended: such a run issues, in this order and each once but for the
\* two existence queries, group-check, group-create, group-check,
\* vnet-create, subnet-create, publicip-create, publicip-poll, subnet-get,
\* publicip-get, nic-create, vmsize-list, vm-create, vm-poll,
\* sqlserver-create, sqlserver-poll, database-create, storage-create, and
\* then succeeds; the nine calls of the claim occur in it in the claimed
\* order, each exactly once.
C4_FullCallSequence ==
    AllSucceed =>
      /\ IsPrefix(Ops, RunCalls)
      /\ status # "failed"
      /\ status = "succeeded" =>
            /\ Ops = RunCalls
            /\ \A k \in 1..Len(NineCalls) : NumCalls(NineCalls[k]) = 1

C4_Witness == AllSucceed /\ status = "succeeded" /\ pc = "done"

\* ------------------------------------------------------------------------
\* C5 (create_resource_group called on its own)
\* ------------------------------------------------------------------------
\* C5: one invocation of create_resource_group issues no create call and
\* returns normally when the existence query answers present, issues one
\* create call and returns normally when it answers absent and the create
\* completes, and never issues more than one create call.
C5_AtMostOneCreate ==
    u_fn = "create_resource_group" =>
      /\ NumCalls("group-create") <= 1
      /\ NumCalls("group-check") <= 1
      /\ (calls # <<>> /\ calls[1].res = "present") =>
            /\ NumCalls("group-create") = 0
            /\ status = "succeeded"
      /\ (Len(calls) = 2 /\ calls[1].res = "absent" /\ calls[2].res = "ok") =>
            /\ calls[2].op = "group-create"
            /\ status = "succeeded"
      /\ (calls # <<>> /\ calls[1].res = "absent" /\ status = "succeeded") =>
            NumCalls("group-create") = 1

C5_Witness ==
    /\ u_fn = "create_resource_group"
    /\ status = "succeeded"
    /\ Ops = <<"group-check", "group-create">>

C7_NotFoundSwallowed ==
    (u_fn \in LifecycleFns /\ calls # <<>>) =>
      /\ calls[1].res = "ResourceNotFoundError" =>
            /\ status = "succeeded"
            /\ log[Len(log)] = L("error", "VM not found")
      /\ calls[1].res \in {"HttpResponseError", "ServiceRequestError"} =>
            /\ status = "failed"
            /\ err = calls[1].res

C7_Witness ==
    /\ u_fn = "delete_vm"
    /\ calls # <<>>
    /\ calls[1].res = "ResourceNotFoundError"
    /\ status = "succeeded"

\* ------------------------------------------------------------------------
\* C8
\* ------------------------------------------------------------------------
\* C8: with the subscription identifier missing from the environment, the
\* program ends in the configuration error at start-up, with no client
\* constructed and no provider call issued.
C8_MissingSubscriptionIsFatal ==
    (env_sub = None /\ pc # "load") =>
      /\ status = "failed"
      /\ err = "ValueError"
      /\ ~clients
      /\ calls = <<>>

\* ------------------------------------------------------------------------
\* C9
\* ------------------------------------------------------------------------
CompensatingOps == {"vm-delete", "vm-power-off", "group-delete"}

\* C9: a failed provider call is the last call of the run: its error leaves
\* the top frame, the run is over, no later step starts, and no delete or
\* other compensating call is ever issued.
C9_FailureEndsRun ==
    /\ \A i \in 1..Len(calls) :
         Failing(calls[i]) =>
           /\ i = Len(calls)
           /\ status = "failed"
           /\ err = calls[i].res
    /\ status = "failed" => ~ENABLED Next
    /\ \A i \in 1..Len(calls) : calls[i].op \notin CompensatingOps

C9_Witness ==
    /\ status = "failed"
    /\ pc = "nic_create"
    /\ Failing(calls[Len(calls)])
    /\ DoneBefore("vnet-create", Len(calls))
    /\ DoneBefore("publicip-create", Len(calls))

\* ------------------------------------------------------------------------
\* C10
\* ------------------------------------------------------------------------
SqlOps == {"sqlserver-create", "sqlserver-poll", "database-create"}

\* C10: every SQL call of an invocation carries the one generated server
\* name; the database create call is issued only after the server create
\* call completed and a later verification query for that name succeeded;
\* after a failed server creation or verification there is none.
C10_DatabaseAfterVerifiedServer ==
    /\ \A i \in 1..Len(calls) :
         calls[i].op \in SqlOps =>
           /\ calls[i].name = unique_sql_server_name
           /\ \E sfx \in Suffixes : calls[i].name = SQL_SERVER_NAME \o sfx
    /\ \A i \in 1..Len(calls) :
         calls[i].op = "database-create" =>
           \E j \in 1..(i - 1) : \E k \in (j + 1)..(i - 1) :
             /\ calls[j] = Call("sqlserver-create", calls[i].name, "ok")
             /\ calls[k] = Call("sqlserver-poll", calls[i].name, "ok")
    /\ NumCalls("sqlserver-create") <= 1
    /\ ((\E i \in 1..Len(calls) :
            calls[i].op \in {"sqlserver-create", "sqlserver-poll"} /\ Failing(calls[i]))
          \/ (status = "failed" /\ pc \in {"sql_create", "sql_poll"}))
         => NumCalls("database-create") = 0

C10_Witness ==
    \E i \in 1..Len(calls) : calls[i].op = "database-create" /\ calls[i].res = "ok"

====
